---- MODULE Spec2Model ----
(***************************************************************************)
(* Model of the ticket-diagnosis orchestration engine of mod_agentes:      *)
(*   - the session cache of ZnunyService (services/update_service.py),     *)
(*   - the article selector ZnunyService._extract_relevant_text,           *)
(*   - AgentService.diagnose_ticket (services/agent_service.py),           *)
(*   - the orchestrator ZnunyService.diagnose_and_update_ticket.           *)
(*                                                                         *)
(* Python's None is the string "None".  Text is a sequence of tokens: a    *)
(* token is one character, except that "json" stands for an occurrence of  *)
(* the substring json and the JSON punctuation and keys are one token each.*)
(***************************************************************************)
EXTENDS Integers, Sequences, FiniteSets, TLC

None == "None"

(* ------------------------------ bounds -------------------------------- *)

\* largest clock value reached by Tick
MaxClock == 3
\* largest session TTL drawn for ZNUNY_SESSION_TTL
MaxTTL == 1
\* number of get_or_create_session_id calls explored
MaxCalls == 3
\* longest Article list given to _extract_relevant_text
MaxArticles == 2
\* longest free-text model response, in tokens
MaxRawLen == 2
\* longest diagnostico value inside a JSON response, in tokens
MaxDiagLen == 2
\* number of webhook requests handled one after the other
MaxRuns == 1

VARIABLES
    \* ---- ZnunyService session cache (update_service.py 21-35, 87-101)
    cached_session_id,   \* self._cached_session_id : None or a session id
    cached_session_ts,   \* self._cached_session_ts
    session_ttl,         \* self.session_ttl
    have_credentials,    \* all([self.username, self.password, self.base_url])
    env_znuny_sid,       \* os.environ.get("ZNUNY_SESSION_ID")
    env_sid,             \* os.environ.get("SESSION_ID")
    now,                 \* time.time()
    auth_requests,       \* PATCH {base_url}/Session requests sent so far
    calls,               \* get_or_create_session_id calls made so far
    last_call,           \* what the latest get_or_create_session_id call did
    prev_call,           \* what the call before it did
    \* ---- ZnunyService._extract_relevant_text (update_service.py 164-188)
    articles,            \* the ticket's Article list as the backend returned it
    extracted,           \* the value _extract_relevant_text returned
    sel_pc,              \* "input": not called yet, "done": it has returned
    \* ---- AgentService.diagnose_ticket (agent_service.py 14-45)
    response_src,        \* how the model client's return value is made up
    diag_result,         \* what diagnose_ticket did with it
    diag_pc,             \* "input": not called yet, "done": it has returned
    \* ---- one webhook request through diagnose_and_update_ticket
    \*      (agent_controller.py 78-108, update_service.py 581-693)
    pc,                  \* where the request is
    runs,                \* requests started so far
    session_id,          \* the SessionID the webhook obtained
    tool_config,         \* the RAG tool handle, or None
    diagnosis_body,      \* diagnosis_body of the orchestrator
    type_id_from_ia,     \* type_id_from_ia of the orchestrator
    requires_visual,     \* requires_visual of the orchestrator
    model_calls,         \* adk_client.diagnose_ticket calls of this request
    visual_calls,        \* _call_multimodal_service calls of this request
    visual_result,       \* visual_result of the orchestrator (line 628)
    metadata_calls,      \* get_ticket_metadata calls of this request
    extract_calls,       \* extract_client_info calls of this request
    metadata,            \* metadata of _process_incident (line 285)
    client_info,         \* client_info of _process_incident (line 291)
    update_calls,        \* update_ticket calls of this request, in order
    update_resp,         \* resp of the orchestrator (line 665)
    submitted,           \* incident_data handed to self._executor.submit
    run_result,          \* how the request ended
    \* ---- the webhook handler (agent_controller.py 20-108)
    log_file,            \* logs/znuny_requests.log: the TicketID of each entry
    payload_ticket,      \* the TicketID in the current request's payload
    ticket_id,           \* ticket_id of znuny_webhook (lines 46-72)
    \* ---- the incident worker pool (update_service.py 35, 313-316, 327-370)
    tasks,               \* every task handed to self._executor, in submit order
    \* ---- request threads inside get_or_create_session_id (lines 87-101)
    threads,             \* each thread's position and local variables
    origin               \* for each session id, the now of the call that got it

sessionVars == <<cached_session_id, cached_session_ts, session_ttl,
                 have_credentials, env_znuny_sid, env_sid, now,
                 auth_requests, calls, last_call, prev_call>>

selectorVars == <<articles, extracted, sel_pc>>

diagVars == <<response_src, diag_result, diag_pc>>

runVars == <<pc, runs, session_id, tool_config, diagnosis_body, type_id_from_ia,
             requires_visual, model_calls, visual_calls, visual_result,
             metadata_calls, metadata, extract_calls, client_info,
             update_calls, update_resp, submitted, run_result,
             log_file, payload_ticket, ticket_id>>

webhookVars == <<log_file, payload_ticket, ticket_id>>

taskVars == <<tasks>>

threadVars == <<threads, origin>>

vars == <<sessionVars, selectorVars, diagVars, runVars, taskVars, threadVars>>

\* what the session-cache actions leave alone, and what the selector does
notSessionVars == <<selectorVars, diagVars, runVars, taskVars, threadVars>>
notSelectorVars == <<sessionVars, diagVars, runVars, taskVars, threadVars>>
notDiagVars == <<sessionVars, selectorVars, runVars, taskVars, threadVars>>

(* ====================================================================== *)
(*                           SessionCache                                 *)
(* ====================================================================== *)

SessionIds == {"sidA", "sidB"}

\* values an environment variable can hold: unset, empty, or a value
EnvZnunySidValues == {None, "", "ovr1"}
EnvSidValues == {None, "ovr2"}

TTLValues == (-1)..MaxTTL

\* what the backend does with one PATCH /Session request
LoginOutcomes ==
    {[kind |-> "ok", sid |-> s] : s \in SessionIds}
    \cup {[kind |-> k, sid |-> None] :
            k \in {"transport_error", "http_error", "bad_json", "no_session_id"}}

\* Python truthiness of an Optional[str]
TruthyStr(s) == s # None /\ s # ""

\* os.environ.get("ZNUNY_SESSION_ID") or os.environ.get("SESSION_ID")
EnvSidOnlyZnuny(e1, e2) == e1
EnvSid(e1, e2) == IF TruthyStr(e1) THEN e1 ELSE e2

\* self._cached_session_id and (now - self._cached_session_ts) < self.session_ttl
CacheFreshInclusive(id, ts, t, ttl) == TruthyStr(id) /\ (t - ts) <= ttl
CacheFresh(id, ts, t, ttl) == TruthyStr(id) /\ (t - ts) < ttl

\* _login_create_session: [raised, exc, value, requests]
LoginCreateSession(creds, outcome) ==
    IF ~creds
    THEN [raised |-> TRUE, exc |-> "ValueError", value |-> None, requests |-> 0]
    ELSE IF outcome.kind = "ok"
    THEN [raised |-> FALSE, exc |-> None, value |-> outcome.sid, requests |-> 1]
    ELSE [raised |-> TRUE, exc |-> "RuntimeError", value |-> None, requests |-> 1]

\* lines 99-100: the cache after the login attempt
CacheAfterLoginEager(login, id, ts, t) ==
    [id |-> IF login.raised THEN id ELSE login.value, ts |-> t]
CacheAfterLogin(login, id, ts, t) ==
    IF login.raised THEN [id |-> id, ts |-> ts]
    ELSE [id |-> login.value, ts |-> t]

\* get_or_create_session_id as a function of the state it reads:
\* [raised, exc, value, id, ts, requests, path]
GetOrCreate(e1, e2, id, ts, ttl, t, creds, outcome) ==
    LET ovr == EnvSid(e1, e2) IN
    IF TruthyStr(ovr)
    THEN [raised |-> FALSE, exc |-> None, value |-> ovr, id |-> id, ts |-> ts,
          requests |-> 0, path |-> "override"]
    ELSE IF CacheFresh(id, ts, t, ttl)
    THEN [raised |-> FALSE, exc |-> None, value |-> id, id |-> id, ts |-> ts,
          requests |-> 0, path |-> "cache"]
    ELSE LET login == LoginCreateSession(creds, outcome)
             cache == CacheAfterLogin(login, id, ts, t)
         IN [raised |-> login.raised, exc |-> login.exc,
             value |-> IF login.raised THEN None ELSE cache.id,
             id |-> cache.id, ts |-> cache.ts,
             requests |-> login.requests, path |-> "login"]

NoCall == [made |-> FALSE, raised |-> FALSE, value |-> None, path |-> "none",
           requests |-> 0, at |-> 0, env1 |-> None, env2 |-> None,
           pre_id |-> None, pre_ts |-> 0, creds |-> FALSE, outcome |-> "none",
           login_sid |-> None]

NoPrev == [made |-> FALSE, raised |-> FALSE, value |-> None, path |-> "none"]

SessionInit ==
    /\ cached_session_id = None
    /\ cached_session_ts = 0
    /\ session_ttl \in TTLValues
    /\ have_credentials \in BOOLEAN
    /\ env_znuny_sid \in EnvZnunySidValues
    /\ env_sid \in EnvSidValues
    /\ now = 1
    /\ auth_requests = 0
    /\ calls = 0
    /\ last_call = NoCall
    /\ prev_call = NoPrev

\* one call of ZnunyService.get_or_create_session_id
GetOrCreateSessionId(outcome) ==
    /\ calls < MaxCalls
    /\ LET r == GetOrCreate(env_znuny_sid, env_sid, cached_session_id,
                            cached_session_ts, session_ttl, now,
                            have_credentials, outcome)
       IN /\ cached_session_id' = r.id
          /\ cached_session_ts' = r.ts
          /\ auth_requests' = auth_requests + r.requests
          /\ prev_call' = [made |-> last_call.made, raised |-> last_call.raised,
                           value |-> last_call.value, path |-> last_call.path]
          /\ last_call' = [made |-> TRUE, raised |-> r.raised, value |-> r.value,
                           path |-> r.path, requests |-> r.requests, at |-> now,
                           env1 |-> env_znuny_sid, env2 |-> env_sid,
                           pre_id |-> cached_session_id,
                           pre_ts |-> cached_session_ts,
                           creds |-> have_credentials,
                           outcome |-> IF r.path = "login" /\ have_credentials
                                       THEN outcome.kind ELSE "none",
                           login_sid |-> IF r.path = "login" /\ have_credentials
                                         THEN outcome.sid ELSE None]
    /\ calls' = calls + 1
    /\ UNCHANGED <<session_ttl, have_credentials, env_znuny_sid, env_sid, now>>
    /\ UNCHANGED notSessionVars

\* time passes between calls
Tick ==
    /\ now < MaxClock
    /\ now' = now + 1
    /\ UNCHANGED <<cached_session_id, cached_session_ts, session_ttl,
                   have_credentials, env_znuny_sid, env_sid, auth_requests,
                   calls, last_call, prev_call>>
    /\ UNCHANGED notSessionVars

\* the process environment is changed between calls (os.environ is read on
\* every call, line 90)
SetEnv ==
    /\ \E e1 \in EnvZnunySidValues, e2 \in EnvSidValues :
          /\ <<e1, e2>> # <<env_znuny_sid, env_sid>>
          /\ env_znuny_sid' = e1
          /\ env_sid' = e2
    /\ UNCHANGED <<cached_session_id, cached_session_ts, session_ttl,
                   have_credentials, now, auth_requests, calls, last_call,
                   prev_call>>
    /\ UNCHANGED notSessionVars

SessionNext ==
    \/ \E outcome \in LoginOutcomes : GetOrCreateSessionId(outcome)
    \/ Tick
    \/ SetEnv

(* ====================================================================== *)
(*                           ArticleSelector                              *)
(* ====================================================================== *)

\* Article fields read by the selector, and SenderType, which it never reads.
\* CreateTime 0 stands for an absent (falsy) CreateTime.  ArticleIDs are
\* unique within a ticket.  A missing Article collection (line 166) behaves
\* as the empty list.
SenderTypes == {"customer", "system", "agent"}
ArticleTimes == {0, 1}
ArticleIds == 1..MaxArticles
ArticleContents ==
    { [Subject |-> "", Body |-> ""],
      [Subject |-> "Ayuda", Body |-> ""],
      [Subject |-> "Ayuda", Body |-> "impresora"],
      [Subject |-> "Ticket creado", Body |-> "registrada"] }

Articles ==
    { [SenderType |-> st, CreateTime |-> t, ArticleID |-> i,
       Subject |-> c.Subject, Body |-> c.Body] :
         st \in SenderTypes, t \in ArticleTimes, i \in ArticleIds,
         c \in ArticleContents }

ArticleLists ==
    { s \in UNION { [1..n -> Articles] : n \in 0..MaxArticles } :
        \A i, j \in 1..Len(s) : i # j => s[i].ArticleID # s[j].ArticleID }

\* key=lambda a: a.get("CreateTime") or a.get("ArticleID") or 0
SortKeyIdOnly(a) == a.ArticleID
SortKey(a) == IF a.CreateTime # 0 THEN a.CreateTime ELSE a.ArticleID

\* sorted(articles, key=...): ascending and stable
RECURSIVE InsertByKey(_, _)
InsertByKey(a, s) ==
    IF s = <<>> THEN <<a>>
    ELSE IF SortKey(Head(s)) <= SortKey(a)
         THEN <<Head(s)>> \o InsertByKey(a, Tail(s))
         ELSE <<a>> \o s

RECURSIVE SortedArticles(_)
SortedArticles(s) ==
    IF s = <<>> THEN <<>>
    ELSE InsertByKey(s[Len(s)], SortedArticles(SubSeq(s, 1, Len(s) - 1)))

\* last_relevant = sorted_articles[0]
PickLast(sorted) == sorted[Len(sorted)]
PickRelevant(sorted) == sorted[1]

\* not subject and not body
IsBlankEither(a) == a.Subject = "" \/ a.Body = ""
IsBlank(a) == a.Subject = "" /\ a.Body = ""

\* f"Subject: {subject}\n---\nBody:\n{body}"
FormatArticle(a) == <<"Subject: ", a.Subject, "\n---\nBody:\n", a.Body>>

NoText == [none |-> TRUE, text |-> <<>>]

\* _extract_relevant_text: None, or the formatted text of one article
ExtractRelevantText(arts) ==
    IF arts = <<>> THEN NoText
    ELSE LET last_relevant == PickRelevant(SortedArticles(arts)) IN
         IF IsBlank(last_relevant) THEN NoText
         ELSE [none |-> FALSE, text |-> FormatArticle(last_relevant)]

SelectorInit ==
    /\ articles \in ArticleLists
    /\ extracted = NoText
    /\ sel_pc = "input"

\* one call of _extract_relevant_text on the fetched list
ExtractRelevantTextStep ==
    /\ sel_pc = "input"
    /\ extracted' = ExtractRelevantText(articles)
    /\ sel_pc' = "done"
    /\ UNCHANGED articles
    /\ UNCHANGED notSelectorVars

(* ====================================================================== *)
(*                    AgentService.diagnose_ticket                        *)
(* ====================================================================== *)

\* ---- JSON values: [t, s, n]; t is "none" (null or absent), "num", "str"
\* or "bool" (n = 1 for true)
JNone == [t |-> "none", s |-> <<>>, n |-> 0]
JNum(k) == [t |-> "num", s |-> <<>>, n |-> k]
JStr(txt) == [t |-> "str", s |-> txt, n |-> 0]
JBool(b) == [t |-> "bool", s |-> <<>>, n |-> IF b THEN 1 ELSE 0]

\* Python truthiness of a JSON value
Truthy(v) == (v.t \in {"num", "bool"} /\ v.n # 0) \/ (v.t = "str" /\ v.s # <<>>)

\* ---- tokens
WS == " "
\* one backtick character
TICK == "BACKTICK"
QUOTE == "\""
NumTokens == {"0", "3", "9", "10", "14"}
NumValue(tok) == CASE tok = "0" -> 0 [] tok = "3" -> 3 [] tok = "9" -> 9
                   [] tok = "10" -> 10 [] tok = "14" -> 14
BoolTokens == {"true", "false"}
KeyTokens == {"\"type_id\":", "\"diagnostico\":", "\"diagnosis\":",
              "\"requires_visual\":", "\"criticality_score\":",
              "\"is_security_alert\":"}
KeyName(tok) == CASE tok = "\"type_id\":" -> "type_id"
                  [] tok = "\"diagnostico\":" -> "diagnostico"
                  [] tok = "\"diagnosis\":" -> "diagnosis"
                  [] tok = "\"requires_visual\":" -> "requires_visual"
                  [] tok = "\"criticality_score\":" -> "criticality_score"
                  [] tok = "\"is_security_alert\":" -> "is_security_alert"
Keys == {"type_id", "diagnostico", "diagnosis", "requires_visual",
         "criticality_score", "is_security_alert"}
KeyToken(k) == CHOOSE tok \in KeyTokens : KeyName(tok) = k

\* ---- str.strip(), str.strip(backtick), str.replace("json", "")
RECURSIVE LStrip(_, _)
LStrip(txt, ch) ==
    IF txt # <<>> /\ Head(txt) = ch THEN LStrip(Tail(txt), ch) ELSE txt

RECURSIVE RStrip(_, _)
RStrip(txt, ch) ==
    IF txt # <<>> /\ txt[Len(txt)] = ch
    THEN RStrip(SubSeq(txt, 1, Len(txt) - 1), ch) ELSE txt

Strip(txt, ch) == RStrip(LStrip(txt, ch), ch)

IsNotJsonWord(tok) == tok # "json"
RemoveJson(txt) == SelectSeq(txt, IsNotJsonWord)

\* cleaned = response_text.strip().strip(backtick).replace("json", "")
Cleaned(txt) == RemoveJson(Strip(Strip(txt, WS), TICK))

\* ---- json.loads over tokens
RECURSIVE SkipWs(_, _)
SkipWs(txt, i) == IF i <= Len(txt) /\ txt[i] = WS THEN SkipWs(txt, i + 1) ELSE i

\* position of the quote closing a string opened before i, 0 if there is none
RECURSIVE StrEnd(_, _)
StrEnd(txt, i) ==
    IF i > Len(txt) THEN 0
    ELSE IF txt[i] = QUOTE THEN i ELSE StrEnd(txt, i + 1)

EmptyObject == [k \in Keys |-> JNone]
ParseFail == [ok |-> FALSE, val |-> JNone, obj |-> EmptyObject, next |-> 0]

\* a number, true, false, null or a string literal starting at i
ParseValue(txt, i) ==
    IF i > Len(txt) THEN ParseFail
    ELSE IF txt[i] \in NumTokens
    THEN [ParseFail EXCEPT !.ok = TRUE, !.val = JNum(NumValue(txt[i])), !.next = i + 1]
    ELSE IF txt[i] \in BoolTokens
    THEN [ParseFail EXCEPT !.ok = TRUE, !.val = JBool(txt[i] = "true"), !.next = i + 1]
    ELSE IF txt[i] = "null"
    THEN [ParseFail EXCEPT !.ok = TRUE, !.next = i + 1]
    ELSE IF txt[i] = QUOTE
    THEN LET e == StrEnd(txt, i + 1) IN
         IF e = 0 THEN ParseFail
         ELSE [ParseFail EXCEPT !.ok = TRUE, !.val = JStr(SubSeq(txt, i + 1, e - 1)),
                                !.next = e + 1]
    ELSE ParseFail

\* the members of an object from i on, up to and including the closing brace
RECURSIVE ParseMembers(_, _, _)
ParseMembers(txt, i, acc) ==
    LET j == SkipWs(txt, i) IN
    IF j > Len(txt) \/ txt[j] \notin KeyTokens THEN ParseFail
    ELSE LET v == ParseValue(txt, SkipWs(txt, j + 1)) IN
         IF ~v.ok THEN ParseFail
         ELSE LET k == SkipWs(txt, v.next)
                  acc2 == [acc EXCEPT ![KeyName(txt[j])] = v.val]
              IN IF k > Len(txt) THEN ParseFail
                 ELSE IF txt[k] = "}"
                 THEN [ParseFail EXCEPT !.ok = TRUE, !.obj = acc2, !.next = k + 1]
                 ELSE IF txt[k] = "," THEN ParseMembers(txt, k + 1, acc2)
                 ELSE ParseFail

\* json.loads: [ok, isobj, obj]; ok = FALSE is json.JSONDecodeError
JsonLoads(txt) ==
    LET i == SkipWs(txt, 1)
        bad == [ok |-> FALSE, isobj |-> FALSE, obj |-> EmptyObject]
        done(r, isobj) ==
            IF r.ok /\ SkipWs(txt, r.next) > Len(txt)
            THEN [ok |-> TRUE, isobj |-> isobj, obj |-> r.obj]
            ELSE bad
    IN IF i > Len(txt) THEN bad
       ELSE IF txt[i] = "{"
       THEN LET j == SkipWs(txt, i + 1) IN
            IF j <= Len(txt) /\ txt[j] = "}"
            THEN done([ParseFail EXCEPT !.ok = TRUE, !.next = j + 1], TRUE)
            ELSE done(ParseMembers(txt, i + 1, EmptyObject), TRUE)
       ELSE done(ParseValue(txt, i), FALSE)

\* ---- the model client's return value: None or a text
NoResponse == [none |-> TRUE, text |-> <<>>]
TextResponse(txt) == [none |-> FALSE, text |-> txt]

\* the two fixed messages of lines 23 and 35
UNAVAILABLE == "Diagnostico automatico no disponible"
UnavailableNoResponse == <<UNAVAILABLE, " (Modelo de IA no respondio).">>
UnavailableNoField == <<UNAVAILABLE, " (IA no entrego campo diagnostico).">>

\* if not response_text
IsNoneOnly(resp) == resp.none
IsFalsyResponse(resp) == resp.none \/ resp.text = <<>>

\* data.get("diagnostico") or data.get("diagnosis")
DiagnosticoOf(obj) ==
    IF Truthy(obj["diagnostico"]) THEN obj["diagnostico"] ELSE obj["diagnosis"]

\* what diagnose_ticket gives back: a plain string, a dict, or an exception.
\* keys is the set of keys the dict has; requires_visual is its value under
\* "requires_visual" when it has that key.
RetStr(txt) == [tag |-> "str", text |-> txt, type_id |-> JNone,
                diagnostico |-> JNone, exc |-> None,
                keys |-> {}, requires_visual |-> JNone]
RetDict(tid, d) == [tag |-> "dict", text |-> <<>>, type_id |-> tid,
                    diagnostico |-> d, exc |-> None,
                    keys |-> {"type_id", "diagnostico"}, requires_visual |-> JNone]
RetRaise(e) == [tag |-> "raise", text |-> <<>>, type_id |-> JNone,
                diagnostico |-> JNone, exc |-> e,
                keys |-> {}, requires_visual |-> JNone]

\* lines 37-40: the dict built from the parsed object
ParsedDict(obj, diagnostico) == RetDict(obj["type_id"], diagnostico)

\* line 45: {"diagnostico": response_text.strip(), "type_id": None}
RawFallbackUntrimmed(txt) == RetDict(JNone, JStr(txt))
RawFallback(txt) == RetDict(JNone, JStr(Strip(txt, WS)))

\* AgentService.diagnose_ticket applied to the model client's return value
DiagnoseTicket(resp) ==
    IF IsFalsyResponse(resp) THEN RetStr(UnavailableNoResponse)
    ELSE LET data == JsonLoads(Cleaned(resp.text)) IN
         IF ~data.ok THEN RawFallback(resp.text)
         ELSE IF ~data.isobj THEN RetRaise("AttributeError")
         ELSE LET diagnostico == DiagnosticoOf(data.obj) IN
              IF ~Truthy(diagnostico) THEN RetStr(UnavailableNoField)
              ELSE ParsedDict(data.obj, diagnostico)

\* ---- the responses explored
RawChars == {WS, TICK, "json", "x"}
SeqsUpTo(S, n) == UNION { [1..k -> S] : k \in 0..n }
RawTexts == SeqsUpTo(RawChars, MaxRawLen) \ {<<>>}

\* what may surround the JSON text: nothing, a fence with or without the
\* language tag, blank lines
Fences == { [pre |-> <<>>, post |-> <<>>, fenced |-> FALSE],
            [pre |-> <<WS>>, post |-> <<WS>>, fenced |-> FALSE],
            [pre |-> <<TICK, TICK, TICK, "json", WS>>,
             post |-> <<WS, TICK, TICK, TICK>>, fenced |-> TRUE],
            [pre |-> <<TICK, TICK, TICK, WS>>,
             post |-> <<WS, TICK, TICK, TICK>>, fenced |-> TRUE] }

\* a further member the object may carry after type_id and diagnostico
ExtraMembers ==
    {[key |-> "none", val |-> JNone]}
    \cup {[key |-> "requires_visual", val |-> JBool(b)] : b \in BOOLEAN}
    \cup {[key |-> "is_security_alert", val |-> JBool(b)] : b \in BOOLEAN}
    \cup {[key |-> "criticality_score", val |-> JNum(k)] : k \in {3, 9}}
NoExtra == [key |-> "none", val |-> JNone]

TypeIdValues == {JNone, JNum(10), JNum(14)}
DiagValues == {JNone, JNum(0), JNum(14)}
                 \cup {JStr(d) : d \in SeqsUpTo(RawChars, MaxDiagLen)}

RenderValue(v) ==
    CASE v.t = "num" -> <<CHOOSE tok \in NumTokens : NumValue(tok) = v.n>>
      [] v.t = "bool" -> <<IF v.n = 1 THEN "true" ELSE "false">>
      [] v.t = "str" -> <<QUOTE>> \o v.s \o <<QUOTE>>
      [] OTHER -> <<"null">>

\* the text of the object {"type_id": tid, key: d, extra}; a JNone member is
\* left out
RenderObject(tid, key, d, extra) ==
    LET m1 == IF tid = JNone THEN <<>>
              ELSE <<KeyToken("type_id")>> \o RenderValue(tid)
        m2 == IF d = JNone THEN <<>>
              ELSE <<KeyToken(key), WS>> \o RenderValue(d)
        m3 == IF extra.key = "none" THEN <<>>
              ELSE <<KeyToken(extra.key), WS>> \o RenderValue(extra.val)
        sep(a, b) == IF a # <<>> /\ b # <<>> THEN <<",", WS>> ELSE <<>>
    IN <<"{">> \o m1 \o sep(m1, m2) \o m2 \o sep(m1 \o m2, m3) \o m3 \o <<"}">>

\* how a response is made up: kind "none", "raw" (free text), "object" (a JSON
\* object, perhaps fenced), "scalar" (a JSON value that is no object) or
\* "broken" (an object cut short)
RawSrc(txt) == [kind |-> "raw", raw |-> txt, fence |-> CHOOSE f \in Fences : f.pre = <<>>,
                type_id |-> JNone, key |-> "diagnostico", diag |-> JNone,
                extra |-> NoExtra]
NoneSrc == [RawSrc(<<>>) EXCEPT !.kind = "none"]
ObjectSrc(f, tid, key, d) ==
    [kind |-> "object", raw |-> <<>>, fence |-> f, type_id |-> tid, key |-> key,
     diag |-> d, extra |-> NoExtra]
\* the flags tried with a plain diagnosis
FlaggedSources ==
    {[ObjectSrc(f, tid, "diagnostico", JStr(<<"x">>)) EXCEPT !.extra = x] :
        f \in Fences, tid \in TypeIdValues, x \in ExtraMembers \ {NoExtra}}

ResponseSources ==
    {NoneSrc, RawSrc(<<>>)}
    \cup {RawSrc(txt) : txt \in RawTexts}
    \cup {ObjectSrc(f, tid, key, d) :
            f \in Fences, tid \in TypeIdValues,
            key \in {"diagnostico", "diagnosis"}, d \in DiagValues}
    \cup FlaggedSources
    \cup {[ObjectSrc(f, JNone, "diagnostico", v) EXCEPT !.kind = "scalar"] :
            f \in Fences, v \in {JNum(14), JStr(<<"x">>), JNone}}
    \cup {[ObjectSrc(f, JNum(14), "diagnostico", JStr(<<"x">>)) EXCEPT !.kind = "broken"] :
            f \in Fences}

\* the value the model client returns for a source
ResponseOf(src) ==
    CASE src.kind = "none" -> NoResponse
      [] src.kind = "raw" -> TextResponse(src.raw)
      [] src.kind = "object" ->
            TextResponse(src.fence.pre
                         \o RenderObject(src.type_id, src.key, src.diag, src.extra)
                         \o src.fence.post)
      [] src.kind = "scalar" ->
            TextResponse(src.fence.pre \o RenderValue(src.diag) \o src.fence.post)
      [] src.kind = "broken" ->
            LET t == RenderObject(src.type_id, src.key, src.diag, src.extra) IN
            TextResponse(src.fence.pre \o SubSeq(t, 1, Len(t) - 1) \o src.fence.post)

NoResult == RetStr(<<>>)

DiagInit ==
    /\ response_src \in ResponseSources
    /\ diag_result = NoResult
    /\ diag_pc = "input"

\* one call of AgentService.diagnose_ticket
DiagnoseTicketStep ==
    /\ diag_pc = "input"
    /\ diag_result' = DiagnoseTicket(ResponseOf(response_src))
    /\ diag_pc' = "done"
    /\ UNCHANGED response_src
    /\ UNCHANGED notDiagVars

(* ====================================================================== *)
(*          Orchestrator: ZnunyService.diagnose_and_update_ticket         *)
(* ====================================================================== *)

INCIDENT == 10

\* ---- what the collaborators may answer
\* GET Ticket?AllArticles=1: a transport/HTTP error, or an Article list
RunArticleLists ==
    { a \in ArticleLists :
        /\ Len(a) <= 1
        /\ \A i \in 1..Len(a) : /\ a[i].SenderType = "customer"
                                /\ a[i].CreateTime = 1
                                /\ a[i].ArticleID = 1 }
FetchOutcomes ==
    {[ok |-> FALSE, arts |-> <<>>]} \cup {[ok |-> TRUE, arts |-> a] : a \in RunArticleLists}

\* get_ticket_latest_article: None on any error, else _extract_relevant_text
GetTicketLatestArticle(fetch) ==
    IF fetch.ok THEN ExtractRelevantText(fetch.arts) ELSE NoText

\* _get_rag_tool_config: the store and its tool, or one of the failures
RagOutcomes == {"tool", "no_kb_service", "store_error", "no_store_name",
                "tool_error"}
GetRagToolConfig(rag) == IF rag = "tool" THEN "rag_tool" ELSE None

\* lines 242-252: the whole of _get_rag_tool_config is inside try/except
\* Exception, so nothing is raised to line 612
RagConfigRaisesOnError(rag) == rag \in {"no_kb_service", "store_error", "tool_error"}
RagConfigRaises(rag) == FALSE

\* line 279: if type_id != 10
NotIncidentNever(type_id) == FALSE
NotIncident(type_id) == type_id # JNum(INCIDENT)

\* the model responses tried inside a request
RunResponseSources ==
    { src \in ResponseSources :
        src.kind = "object" => (src.fence.fenced /\ Len(src.fence.pre) = 5
                                /\ src.key = "diagnostico") }

\* POST {MULTIMODAL_URL}/diagnose as _call_multimodal_service sees it: the
\* URL is not configured, the request fails, the service answers with
\* status "error" or with something that is no JSON object, or it answers
VisualFailures == {"no_url", "timeout", "connection_error", "http_error",
                   "status_error", "bad_json"}
VisualOutcomes ==
    {[kind |-> k, type_id |-> JNone, diagnosis |-> JNone] : k \in VisualFailures}
    \cup {[kind |-> "answer", type_id |-> t, diagnosis |-> JStr(<<"visual">>)] :
            t \in {JNone, JNum(INCIDENT), JNum(14)}}
NoVisual == [ok |-> FALSE, raised |-> FALSE, type_id |-> JNone, diagnosis |-> JNone]

\* _call_multimodal_service: None (ok = FALSE) on every failure, else the
\* service's type_id and diagnosis; it never raises
CallMultimodalServiceRaising(v) ==
    IF v.kind = "answer"
    THEN [ok |-> TRUE, raised |-> FALSE, type_id |-> v.type_id, diagnosis |-> v.diagnosis]
    ELSE [NoVisual EXCEPT !.raised = v.kind \in {"timeout", "connection_error"}]
CallMultimodalService(v) ==
    IF v.kind = "answer"
    THEN [ok |-> TRUE, raised |-> FALSE, type_id |-> v.type_id, diagnosis |-> v.diagnosis]
    ELSE NoVisual

\* get_ticket_metadata: a dict, or None on any error
MetadataOutcomes == {"metadata", "none"}
\* extract_client_info: the model's object, the error object extract_client
\* builds when anything raises, or a JSON value that is no object
ExtractOutcomes == {"entity", "error_object", "not_an_object"}
\* PATCH Ticket/{id}: the backend's answer, a transport error, or a non-2xx
\* status
UpdateOutcomes == {"ok", "transport_error", "http_error"}

\* get_ticket_metadata: the dict, or None on any error; line 286: not metadata
GetTicketMetadata(meta) == IF meta = "metadata" THEN "metadata" ELSE None
NoMetadata(m) == m = None

\* lines 291-292, 323-325: extract_client_info gives back the model's object
\* or, when anything fails inside extract_client, its own error object; only
\* a value that has no .get makes _process_incident take its except branch
ExtractionRaises(ext) == ext = "not_an_object"

\* a task as self._executor.submit leaves it: waiting in the pool's queue.
\* data is the incident_data dict itself, which the request thread still
\* holds; handed is what the dict held when it was handed over
QueuedTask(incident_data) ==
    [data |-> incident_data, handed |-> incident_data, state |-> "queued",
     error_log_calls |-> 0, updates |-> <<>>, accepted |-> FALSE,
     raised |-> FALSE]

\* ---- _generate_diagnosis: [raised, type_id, requires_visual, diagnostico]
GenerateDiagnosis(response_data) ==
    IF response_data.tag = "raise"
    THEN [raised |-> TRUE, type_id |-> JNone, requires_visual |-> FALSE,
          diagnostico |-> JNone]
    ELSE IF response_data.tag = "str"
    THEN [raised |-> FALSE, type_id |-> JNone, requires_visual |-> FALSE,
          diagnostico |-> JStr(response_data.text)]
    ELSE \* response_data.get("requires_visual", False), then if requires_visual
         [raised |-> FALSE, type_id |-> response_data.type_id,
          requires_visual |-> IF "requires_visual" \in response_data.keys
                              THEN Truthy(response_data.requires_visual)
                              ELSE FALSE,
          diagnostico |-> response_data.diagnostico]

\* line 622: not diagnosis_body or not diagnosis_body.strip()
\* "empty": RuntimeError is raised; "attribute_error": .strip() does not exist
CheckDiagnosisNoStrip(body) ==
    IF ~Truthy(body) THEN "empty"
    ELSE IF body.t # "str" THEN "attribute_error"
    ELSE "ok"
CheckDiagnosis(body) ==
    IF ~Truthy(body) THEN "empty"
    ELSE IF body.t # "str" THEN "attribute_error"
    ELSE IF Strip(body.s, WS) = <<>> THEN "empty"
    ELSE "ok"

\* lines 633-639: the diagnosis and type after the visual call
AfterVisual(body, tid, visual) ==
    IF visual.ok
    THEN [body |-> visual.diagnosis,
          tid |-> IF Truthy(visual.type_id) THEN visual.type_id ELSE tid]
    ELSE [body |-> body, tid |-> tid]

\* line 606: if not ticket_text
NoTicketTextIgnored(ticket_text) == FALSE
NoTicketText(ticket_text) == ticket_text.none \/ ticket_text.text = <<>>

\* line 647: incident_data and incident_data.get("delegated"), for the value
\* _process_incident returned (None, or the record it marked as delegated)
SkipsSyncUpdateNever(incident) == FALSE
SkipsSyncUpdate(incident) == incident.returned /\ incident.delegated

\* lines 223-234: the requests update_ticket sends for one call
UpdateRequestsWithRetry(call, upd) == IF upd # "ok" THEN <<call, call>> ELSE <<call>>
UpdateRequests(call, upd) == <<call>>

\* update_ticket, lines 223-234: r.json() of a 2xx answer, or {"error": ...}
\* when requests.patch or raise_for_status raises
UpdateTicketResponse(upd) == IF upd = "ok" THEN "json" ELSE "error"

\* line 678: isinstance(resp, dict) and 'error' in resp
UpdateFailedIgnored(resp) == FALSE
UpdateFailed(resp) == resp = "error"

\* line 663
BodyWithIdentifier(body) == <<"[Procesado por: mod_agentes]\n\n">> \o body.s

Running == [status |-> "running", exc |-> None]
Ended(status, exc) == [status |-> status, exc |-> exc]

RunIdle ==
    /\ pc = "idle"
    /\ runs = 0
    /\ session_id = None
    /\ tool_config = None
    /\ diagnosis_body = JNone
    /\ type_id_from_ia = JNone
    /\ requires_visual = FALSE
    /\ model_calls = 0
    /\ visual_calls = 0
    /\ visual_result = NoVisual
    /\ metadata_calls = 0
    /\ extract_calls = 0
    /\ metadata = None
    /\ client_info = None
    /\ update_calls = <<>>
    /\ update_resp = None
    /\ submitted = <<>>
    /\ run_result = Ended("none", None)
    /\ log_file = <<>>
    /\ payload_ticket = None
    /\ ticket_id = None

\* the TicketID a request's payload carries (lines 47-54): none, or one of
\* two tickets
PayloadTickets == {None, "T1", "T2"}

\* lines 37-41: the entry is appended to the log file, or the write fails
LogWrites == {"written", "failed"}
WriteLog(log, payload, logw) ==
    IF logw = "written" THEN Append(log, payload) ELSE log

\* lines 57-72: the TicketID of the last log entry that carries one
RECURSIVE TicketIdFromLog(_)
TicketIdFromLog(log) ==
    IF log = <<>> THEN None
    ELSE IF log[Len(log)] # None THEN log[Len(log)]
    ELSE TicketIdFromLog(SubSeq(log, 1, Len(log) - 1))

\* lines 46-72: the payload's TicketID, else the one found in the log file
ResolveTicketId(payload, log) ==
    IF payload # None THEN payload ELSE TicketIdFromLog(log)

\* znuny_webhook, lines 22-89: request number at most limit arrives, is
\* logged, its ticket is resolved (400 when there is none) and a session is
\* obtained (500 when that fails)
WebhookRequest(payload, logw, login, limit) ==
    /\ UNCHANGED <<taskVars, threadVars>>
    /\ pc \in {"idle", "done"}
    /\ runs < limit
    /\ runs' = runs + 1
    /\ payload_ticket' = payload
    /\ log_file' = WriteLog(log_file, payload, logw)
    /\ ticket_id' = ResolveTicketId(payload, log_file')
    /\ IF ticket_id' = None
       THEN /\ pc' = "done" /\ run_result' = Ended("rejected", None)
            /\ session_id' = None
            /\ UNCHANGED <<cached_session_id, cached_session_ts, auth_requests>>
       ELSE LET r == GetOrCreate(env_znuny_sid, env_sid, cached_session_id,
                                 cached_session_ts, session_ttl, now,
                                 have_credentials, login)
            IN /\ cached_session_id' = r.id
               /\ cached_session_ts' = r.ts
               /\ auth_requests' = auth_requests + r.requests
               /\ session_id' = r.value
               /\ IF r.raised
                  THEN pc' = "done" /\ run_result' = Ended("error", "SessionError")
                  ELSE pc' = "fetch" /\ run_result' = Running
    /\ tool_config' = None
    /\ diagnosis_body' = JNone
    /\ type_id_from_ia' = JNone
    /\ requires_visual' = FALSE
    /\ model_calls' = 0
    /\ visual_calls' = 0
    /\ visual_result' = NoVisual
    /\ metadata_calls' = 0
    /\ extract_calls' = 0
    /\ metadata' = None
    /\ client_info' = None
    /\ update_calls' = <<>>
    /\ update_resp' = None
    /\ submitted' = <<>>
    /\ articles' = <<>>
    /\ extracted' = NoText
    /\ response_src' = NoneSrc
    /\ diag_result' = NoResult
    /\ UNCHANGED <<session_ttl, have_credentials, env_znuny_sid, env_sid, now,
                   calls, last_call, prev_call, sel_pc, diag_pc>>

\* lines 76, 89, 106, 108: the status of the response to a finished request
HttpStatus ==
    CASE run_result.status = "rejected" -> 400
      [] run_result.status = "error" -> 500
      [] run_result.status \in {"ok", "delegated"} -> 200
      [] OTHER -> 0

\* lines 603-607: the ticket text is fetched; no text is fatal
FetchTicketText(fetch) ==
    /\ UNCHANGED <<taskVars, threadVars, webhookVars>>
    /\ pc = "fetch"
    /\ articles' = fetch.arts
    /\ extracted' = GetTicketLatestArticle(fetch)
    /\ IF NoTicketText(extracted')
       THEN pc' = "done" /\ run_result' = Ended("error", "ValueError")
       ELSE pc' = "rag" /\ UNCHANGED run_result
    /\ UNCHANGED <<sessionVars, diagVars, sel_pc, runs, session_id, tool_config,
                   diagnosis_body, type_id_from_ia, requires_visual,
                   model_calls,
                   visual_calls, visual_result, metadata_calls, metadata,
                   extract_calls, client_info, update_calls, update_resp,
                   submitted>>

\* line 612
RagToolConfig(rag) ==
    /\ UNCHANGED <<taskVars, threadVars, webhookVars>>
    /\ pc = "rag"
    /\ IF RagConfigRaises(rag)
       THEN /\ pc' = "done" /\ run_result' = Ended("error", "Exception")
            /\ UNCHANGED tool_config
       ELSE /\ tool_config' = GetRagToolConfig(rag)
            /\ pc' = "diagnose" /\ UNCHANGED run_result
    /\ UNCHANGED <<sessionVars, selectorVars, diagVars, runs, session_id,
                   diagnosis_body, type_id_from_ia, requires_visual,
                   model_calls,
                   visual_calls, visual_result, metadata_calls, metadata,
                   extract_calls, client_info, update_calls, update_resp,
                   submitted>>

\* lines 618-639 for the value gen that _generate_diagnosis returned: the
\* emptiness check, then the visual service when the diagnosis asks for it;
\* v is what the visual service does if it is called
CheckAndRoute(gen, v) ==
    LET check == CheckDiagnosis(gen.diagnostico)
        called == ~gen.raised /\ check = "ok" /\ gen.requires_visual
        visual == CallMultimodalService(v)
        routed == AfterVisual(gen.diagnostico, gen.type_id, visual)
    IN /\ ~called => v = CHOOSE x \in VisualOutcomes : x.kind = "no_url"
       /\ IF gen.raised \/ check = "attribute_error"
          THEN /\ pc' = "done" /\ run_result' = Ended("error", "AttributeError")
               /\ UNCHANGED <<diagnosis_body, type_id_from_ia, requires_visual,
                              visual_calls, visual_result>>
          ELSE IF check = "empty"
          THEN /\ pc' = "done" /\ run_result' = Ended("error", "RuntimeError")
               /\ diagnosis_body' = gen.diagnostico
               /\ type_id_from_ia' = gen.type_id
               /\ requires_visual' = gen.requires_visual
               /\ UNCHANGED <<visual_calls, visual_result>>
          ELSE IF called /\ visual.raised
          \* an exception out of the call would leave diagnose_and_update_ticket
          THEN /\ pc' = "done" /\ run_result' = Ended("error", "RequestException")
               /\ diagnosis_body' = gen.diagnostico
               /\ type_id_from_ia' = gen.type_id
               /\ requires_visual' = gen.requires_visual
               /\ visual_calls' = visual_calls + 1
               /\ visual_result' = visual
          ELSE /\ pc' = "incident" /\ UNCHANGED run_result
               /\ requires_visual' = gen.requires_visual
               /\ visual_calls' = IF called THEN visual_calls + 1 ELSE visual_calls
               /\ visual_result' = IF called THEN visual ELSE NoVisual
               /\ diagnosis_body' = IF called THEN routed.body ELSE gen.diagnostico
               /\ type_id_from_ia' = IF called THEN routed.tid ELSE gen.type_id

\* lines 614-639: the model is asked, its answer checked, and the visual
\* service called when the diagnosis asks for it
Diagnose(src, visual) ==
    /\ UNCHANGED <<taskVars, threadVars, webhookVars>>
    /\ pc = "diagnose"
    /\ response_src' = src
    /\ diag_result' = DiagnoseTicket(ResponseOf(src))
    /\ model_calls' = model_calls + 1
    /\ CheckAndRoute(GenerateDiagnosis(diag_result'), visual)
    /\ UNCHANGED <<sessionVars, selectorVars, diag_pc, runs, session_id,
                   tool_config, metadata_calls, metadata, extract_calls,
                   client_info, update_calls, update_resp,
                   submitted>>

\* _process_incident, lines 279-288: not an incident, or the metadata fetch
ProcessIncident(meta) ==
    /\ UNCHANGED <<taskVars, threadVars, webhookVars>>
    /\ pc = "incident"
    /\ IF NotIncident(type_id_from_ia)
       THEN pc' = "update" /\ UNCHANGED <<metadata_calls, metadata>>
       ELSE /\ metadata_calls' = metadata_calls + 1
            /\ metadata' = GetTicketMetadata(meta)
            /\ pc' = IF NoMetadata(metadata') THEN "update" ELSE "extract"
    /\ UNCHANGED <<sessionVars, selectorVars, diagVars, runs, session_id,
                   tool_config, diagnosis_body, type_id_from_ia,
                   requires_visual,
                   model_calls, visual_calls, visual_result, extract_calls,
                   client_info, update_calls, update_resp,
                   submitted, run_result>>

\* _process_incident, lines 290-316: the extraction, the incident_data dict
\* (no "delegated" key yet) and its hand-over to the pool
ExtractAndDelegate(ext) ==
    /\ UNCHANGED <<threadVars, webhookVars>>
    /\ pc = "extract"
    /\ extract_calls' = extract_calls + 1
    /\ client_info' = ext
    /\ IF ExtractionRaises(ext)
       THEN pc' = "update" /\ UNCHANGED <<submitted, tasks>>
       ELSE LET incident_data ==
                   [ticket_text |-> extracted.text,
                    entity |-> IF ext = "entity" THEN "Cliente"
                               ELSE "Error en extraccion",
                    diagnostico_inicial |-> diagnosis_body.s,
                    session_id |-> session_id,
                    delegated |-> FALSE]
            IN /\ submitted' = Append(submitted, incident_data)
               /\ tasks' = Append(tasks, QueuedTask(incident_data))
               /\ pc' = "mark"
    /\ UNCHANGED <<sessionVars, selectorVars, diagVars, runs, session_id,
                   tool_config, diagnosis_body, type_id_from_ia,
                   requires_visual,
                   model_calls, visual_calls, visual_result, metadata_calls,
                   metadata, update_calls, update_resp, run_result>>

\* lines 313-316: submit gives its Future back at once and the Future is
\* dropped; nothing calls result() on it
SubmitWaitsForResult(task) == task.state # "ended"
SubmitWaits(task) == FALSE

\* _process_incident, lines 318-321, and the delegated return of lines
\* 646-657: the request thread sets incident_data["delegated"] on the dict
\* it has handed to the pool, returns it, and the orchestrator tests the flag
MarkDelegated ==
    /\ UNCHANGED <<threadVars, webhookVars>>
    /\ pc = "mark"
    /\ ~SubmitWaits(tasks[Len(tasks)])
    /\ tasks' = [tasks EXCEPT ![Len(tasks)].data.delegated = TRUE]
    /\ IF SkipsSyncUpdate([returned |-> TRUE,
                           delegated |-> tasks'[Len(tasks)].data.delegated])
       THEN pc' = "done" /\ run_result' = Ended("delegated", None)
       ELSE pc' = "update" /\ UNCHANGED run_result
    /\ UNCHANGED <<sessionVars, selectorVars, diagVars, runs, session_id,
                   tool_config, diagnosis_body, type_id_from_ia,
                   requires_visual,
                   model_calls, visual_calls, visual_result, metadata_calls,
                   metadata, extract_calls, client_info, update_calls,
                   update_resp, submitted>>

\* lines 659-693: the synchronous ticket update
UpdateTicket(upd) ==
    /\ UNCHANGED <<taskVars, threadVars, webhookVars>>
    /\ pc = "update"
    /\ update_calls' = update_calls \o UpdateRequests(
            [subject |-> "Automatic Diagnosis (AI)",
             body |-> BodyWithIdentifier(diagnosis_body),
             type_id |-> type_id_from_ia,
             session_id |-> session_id], upd)
    /\ pc' = "done"
    /\ update_resp' = UpdateTicketResponse(upd)
    /\ run_result' = IF UpdateFailed(update_resp') THEN Ended("error", "RuntimeError")
                     ELSE Ended("ok", None)
    /\ UNCHANGED <<sessionVars, selectorVars, diagVars, runs, session_id,
                   tool_config, diagnosis_body, type_id_from_ia,
                   requires_visual,
                   model_calls, visual_calls, visual_result, metadata_calls,
                   metadata, extract_calls, client_info,
                   submitted>>

\* ---- the worker pool: ThreadPoolExecutor(max_workers=5)
MAX_WORKERS == 5

RunningTasks == {i \in 1..Len(tasks) : tasks[i].state = "running"}
QueuedTasks == {i \in 1..Len(tasks) : tasks[i].state = "queued"}

\* ThreadPoolExecutor starts a queued task only on one of its max_workers
\* threads
WorkerFreeAlways(running) == TRUE
WorkerFree(running) == running < MAX_WORKERS

\* a free worker takes the oldest queued task
TaskStart(i) ==
    /\ i \in QueuedTasks
    /\ \A j \in QueuedTasks : i <= j
    /\ WorkerFree(Cardinality(RunningTasks))
    /\ tasks' = [tasks EXCEPT ![i].state = "running"]
    /\ UNCHANGED <<sessionVars, selectorVars, diagVars, runVars, threadVars>>

\* POST {LOG_MONITOR_URL}/analyze-incident as _call_error_log sees it:
\* "report" is a response the formatter can read, "malformed_report" one it
\* cannot (an entry of diagnosticos that is no object, a null mensaje),
\* "empty_report" the object {}
ErrorLogOutcomes == {"no_url", "timeout", "connection_error", "http_error",
                     "empty_report", "report", "malformed_report"}

\* _call_error_log: [requests, response] ; response None on every failure
CallErrorLog(errlog) ==
    [requests |-> IF errlog = "no_url" THEN 0 ELSE 1,
     response |-> IF errlog \in {"empty_report", "report", "malformed_report"}
                  THEN errlog ELSE None]

\* not error_log_response (line 342)
NoErrorLogResponse(response) == response \in {None, "empty_report"}

\* _format_error_log_response raises on a report it cannot read
FormatRaises(response) == response = "malformed_report"

\* the articles _process_incident_async writes for a response: the fallback
\* body, the formatted report, or nothing when the formatter raised
TaskArticles(data, response) ==
    IF NoErrorLogResponse(response)
    THEN <<[subject |-> "Diagnostico de Incidente (Sin logs encontrados)",
            body |-> <<"no_logs_found", data.entity>> \o data.diagnostico_inicial,
            type_id |-> JNum(INCIDENT), session_id |-> data.session_id]>>
    ELSE IF FormatRaises(response) THEN <<>>
    ELSE <<[subject |-> "Diagnostico de Incidente (Error Log)",
            body |-> <<"report", data.entity>>,
            type_id |-> JNum(INCIDENT), session_id |-> data.session_id]>>

\* _process_incident_async run by a worker, from its first line to its end;
\* upd is the backend's answer to the PATCH of _update_znuny_article
ProcessIncidentAsync(i, errlog, upd) ==
    /\ i \in RunningTasks
    /\ LET call == CallErrorLog(errlog) IN
       tasks' = [tasks EXCEPT
                   ![i].state = "ended",
                   ![i].error_log_calls = call.requests,
                   ![i].updates = TaskArticles(tasks[i].data, call.response),
                   ![i].accepted = /\ TaskArticles(tasks[i].data, call.response) # <<>>
                                   /\ upd = "ok",
                   ![i].raised = /\ ~NoErrorLogResponse(call.response)
                                 /\ FormatRaises(call.response)]
    /\ UNCHANGED <<sessionVars, selectorVars, diagVars, runVars, threadVars>>

TaskStartStep == \E i \in 1..Len(tasks) : TaskStart(i)
TaskRunStep ==
    \E i \in 1..Len(tasks), errlog \in ErrorLogOutcomes, upd \in UpdateOutcomes :
        ProcessIncidentAsync(i, errlog, upd)

Next ==
    \/ \E login \in LoginOutcomes :
          WebhookRequest("T1", "written", login, MaxRuns)
    \/ \E fetch \in FetchOutcomes : FetchTicketText(fetch)
    \/ \E rag \in RagOutcomes : RagToolConfig(rag)
    \/ \E src \in RunResponseSources, visual \in VisualOutcomes :
          Diagnose(src, visual)
    \/ \E meta \in MetadataOutcomes : ProcessIncident(meta)
    \/ \E ext \in ExtractOutcomes : ExtractAndDelegate(ext)
    \/ MarkDelegated
    \/ \E upd \in UpdateOutcomes : UpdateTicket(upd)
    \/ TaskStartStep
    \/ TaskRunStep

(* ====================================================================== *)
(*                           Specifications                               *)
(* ====================================================================== *)

\* a service whose session cache is not exercised
SessionIdle ==
    /\ cached_session_id = None
    /\ cached_session_ts = 0
    /\ session_ttl = 1
    /\ have_credentials = TRUE
    /\ env_znuny_sid = None
    /\ env_sid = None
    /\ now = 1
    /\ auth_requests = 0
    /\ calls = 0
    /\ last_call = NoCall
    /\ prev_call = NoPrev

\* no ticket has been fetched
SelectorIdle ==
    /\ articles = <<>>
    /\ extracted = NoText
    /\ sel_pc = "input"

\* the model client has not been called
DiagIdle ==
    /\ response_src = NoneSrc
    /\ diag_result = NoResult
    /\ diag_pc = "input"

\* nothing has been handed to the worker pool
TaskIdle == tasks = <<>>

\* no request thread is inside get_or_create_session_id
ThreadIdle == threads = <<>> /\ origin = <<>>

\* the session cache alone
SpecSessionInit ==
    SessionInit /\ SelectorIdle /\ DiagIdle /\ RunIdle /\ TaskIdle /\ ThreadIdle
SpecSession == SpecSessionInit /\ [][SessionNext]_vars

\* the article selector applied to every bounded Article list
SpecSelectorInit ==
    SelectorInit /\ SessionIdle /\ DiagIdle /\ RunIdle /\ TaskIdle /\ ThreadIdle
SpecSelector == SpecSelectorInit /\ [][ExtractRelevantTextStep]_vars

\* diagnose_ticket applied to every bounded model response
SpecDiagInit ==
    DiagInit /\ SessionIdle /\ SelectorIdle /\ RunIdle /\ TaskIdle /\ ThreadIdle
SpecDiag == SpecDiagInit /\ [][DiagnoseTicketStep]_vars

\* _generate_diagnosis and lines 618-693 applied to every dict of the shape
\* _generate_diagnosis reads: type_id, diagnostico and requires_visual
VisualDiagResults ==
    {[RetDict(tid, d) EXCEPT !.keys = {"type_id", "diagnostico", "requires_visual"},
                             !.requires_visual = rv] :
        tid \in TypeIdValues,
        d \in {JStr(<<"x">>), JStr(<<WS>>)},
        rv \in {JBool(TRUE), JBool(FALSE), JNone}}

SpecVisualInit ==
    /\ SessionIdle /\ TaskIdle /\ ThreadIdle
    /\ sel_pc = "input" /\ diag_pc = "input"
    /\ articles \in {a \in RunArticleLists : ~ExtractRelevantText(a).none}
    /\ extracted = ExtractRelevantText(articles)
    /\ response_src = NoneSrc
    /\ diag_result \in VisualDiagResults
    /\ pc = "route"
    /\ runs = 1
    /\ session_id = "sidA"
    /\ tool_config = None
    /\ diagnosis_body = JNone
    /\ type_id_from_ia = JNone
    /\ requires_visual = FALSE
    /\ model_calls = 1
    /\ visual_calls = 0
    /\ visual_result = NoVisual
    /\ metadata_calls = 0
    /\ extract_calls = 0
    /\ metadata = None
    /\ client_info = None
    /\ update_calls = <<>>
    /\ update_resp = None
    /\ submitted = <<>>
    /\ run_result = Running
    /\ log_file = <<"T1">>
    /\ payload_ticket = "T1"
    /\ ticket_id = "T1"

\* lines 616-639 once diagnose_ticket has returned diag_result
RouteDiagnosis(v) ==
    /\ pc = "route"
    /\ CheckAndRoute(GenerateDiagnosis(diag_result), v)
    /\ UNCHANGED <<sessionVars, selectorVars, diagVars, taskVars, threadVars,
                   webhookVars, runs, session_id, tool_config, model_calls,
                   metadata_calls, metadata,
                   extract_calls, client_info, update_calls, update_resp,
                   submitted>>

VisualNext ==
    \/ \E v \in VisualOutcomes : RouteDiagnosis(v)
    \/ \E meta \in MetadataOutcomes : ProcessIncident(meta)
    \/ \E ext \in ExtractOutcomes : ExtractAndDelegate(ext)
    \/ MarkDelegated
    \/ \E upd \in UpdateOutcomes : UpdateTicket(upd)
    \/ TaskStartStep
    \/ TaskRunStep

SpecVisual == SpecVisualInit /\ [][VisualNext]_vars

(* ====================================================================== *)
(*   Concurrent request threads inside get_or_create_session_id           *)
(*   (one ZnunyService instance, agent_controller.py line 14)             *)
(* ====================================================================== *)

\* request threads that can be inside get_or_create_session_id at once
MaxThreads == 2

Threads == 1..MaxThreads

\* the SessionID values the backend hands out, a new one for every login
SessionNames == <<"sid1", "sid2", "sid3", "sid4", "sid5", "sid6">>

\* the now (line 94) of the call whose login obtained session id sid
OriginOf(sid) ==
    origin[CHOOSE n \in 1..Len(origin) : SessionNames[n] = sid]

\* a thread outside the method; now, seen_id and new_id are the method's
\* locals and temporaries, value and path what its last call gave back
IdleThread == [pc |-> "idle", now |-> 0, seen_id |-> None, new_id |-> None,
               value |-> None, path |-> "none", raised |-> FALSE]

\* what a thread step leaves alone besides the cache fields it names
ThreadFrame ==
    /\ UNCHANGED <<session_ttl, have_credentials, env_znuny_sid, env_sid, now,
                   last_call, prev_call>>
    /\ UNCHANGED <<selectorVars, diagVars, runVars, taskVars>>

\* lines 90-94: the override check, and now = time.time()
ThreadBegin(t) ==
    /\ threads[t].pc \in {"idle", "done"}
    /\ calls < MaxCalls
    /\ calls' = calls + 1
    /\ LET ovr == EnvSid(env_znuny_sid, env_sid) IN
       threads' = [threads EXCEPT ![t] =
           IF TruthyStr(ovr)
           THEN [IdleThread EXCEPT !.pc = "done", !.value = ovr,
                                   !.path = "override"]
           ELSE [IdleThread EXCEPT !.pc = "check_id", !.now = now]]
    /\ UNCHANGED <<cached_session_id, cached_session_ts, auth_requests, origin>>
    /\ ThreadFrame

\* line 95, left operand: self._cached_session_id
ThreadCheckId(t) ==
    /\ threads[t].pc = "check_id"
    /\ threads' = [threads EXCEPT ![t] =
           [@ EXCEPT !.seen_id = cached_session_id,
                     !.pc = IF TruthyStr(cached_session_id) THEN "check_ts"
                            ELSE "login"]]
    /\ UNCHANGED <<cached_session_id, cached_session_ts, auth_requests, calls,
                   origin>>
    /\ ThreadFrame

\* line 95, right operand: (now - self._cached_session_ts) < self.session_ttl
ThreadCheckTs(t) ==
    /\ threads[t].pc = "check_ts"
    /\ threads' = [threads EXCEPT ![t] =
           [@ EXCEPT !.pc = IF CacheFresh(threads[t].seen_id, cached_session_ts,
                                          threads[t].now, session_ttl)
                            THEN "return_cached" ELSE "login"]]
    /\ UNCHANGED <<cached_session_id, cached_session_ts, auth_requests, calls,
                   origin>>
    /\ ThreadFrame

\* line 96: return self._cached_session_id
ThreadReturnCached(t) ==
    /\ threads[t].pc = "return_cached"
    /\ threads' = [threads EXCEPT ![t] =
           [@ EXCEPT !.pc = "done", !.value = cached_session_id,
                     !.path = "cache"]]
    /\ UNCHANGED <<cached_session_id, cached_session_ts, auth_requests, calls,
                   origin>>
    /\ ThreadFrame

\* line 99, right-hand side: self._login_create_session()
ThreadLogin(t, outcome) ==
    /\ threads[t].pc = "login"
    /\ LET login == LoginCreateSession(have_credentials, outcome) IN
       /\ auth_requests' = auth_requests + login.requests
       /\ origin' = IF login.raised THEN origin
                    ELSE Append(origin, threads[t].now)
       /\ threads' = [threads EXCEPT ![t] =
              IF login.raised
              THEN [@ EXCEPT !.pc = "done", !.raised = TRUE, !.path = "login"]
              ELSE [@ EXCEPT !.pc = "store_id", !.new_id = login.value]]
    /\ UNCHANGED <<cached_session_id, cached_session_ts, calls>>
    /\ ThreadFrame

\* line 99, the assignment to self._cached_session_id
ThreadStoreId(t) ==
    /\ threads[t].pc = "store_id"
    /\ cached_session_id' = threads[t].new_id
    /\ threads' = [threads EXCEPT ![t] = [@ EXCEPT !.pc = "store_ts"]]
    /\ UNCHANGED <<cached_session_ts, auth_requests, calls, origin>>
    /\ ThreadFrame

\* line 100: self._cached_session_ts = now
ThreadStoreTs(t) ==
    /\ threads[t].pc = "store_ts"
    /\ cached_session_ts' = threads[t].now
    /\ threads' = [threads EXCEPT ![t] = [@ EXCEPT !.pc = "return"]]
    /\ UNCHANGED <<cached_session_id, auth_requests, calls, origin>>
    /\ ThreadFrame

\* line 101: return self._cached_session_id
ThreadReturn(t) ==
    /\ threads[t].pc = "return"
    /\ threads' = [threads EXCEPT ![t] =
           [@ EXCEPT !.pc = "done", !.value = cached_session_id,
                     !.path = "login"]]
    /\ UNCHANGED <<cached_session_id, cached_session_ts, auth_requests, calls,
                   origin>>
    /\ ThreadFrame

\* one PATCH /Session request by a thread: a new SessionID, or a failure
ThreadLoginOutcomes ==
    {[kind |-> "ok", sid |-> SessionNames[Len(origin) + 1]]}
    \cup {o \in LoginOutcomes : o.kind # "ok"}

ThreadLoginStep ==
    \E t \in Threads, outcome \in ThreadLoginOutcomes : ThreadLogin(t, outcome)

\* the threads run with no lock between them: any one of them takes the
\* next step, and time passes at any point
ConcurrentNext ==
    \/ \E t \in Threads : ThreadBegin(t)
    \/ \E t \in Threads : ThreadCheckId(t)
    \/ \E t \in Threads : ThreadCheckTs(t)
    \/ \E t \in Threads : ThreadReturnCached(t)
    \/ ThreadLoginStep
    \/ \E t \in Threads : ThreadStoreId(t)
    \/ \E t \in Threads : ThreadStoreTs(t)
    \/ \E t \in Threads : ThreadReturn(t)
    \/ Tick

SpecConcurrentInit ==
    /\ SessionInit /\ SelectorIdle /\ DiagIdle /\ RunIdle /\ TaskIdle
    /\ threads = [t \in Threads |-> IdleThread]
    /\ origin = <<>>
SpecConcurrent == SpecConcurrentInit /\ [][ConcurrentNext]_vars

(* ====================================================================== *)
(*   Many incident requests, one worker pool; and requests with and       *)
(*   without a TicketID                                                   *)
(* ====================================================================== *)

\* incident requests handled one after another while their tasks run
MaxPoolRuns == 6

\* webhook requests with any payload
MaxRequests == 2

\* a ticket whose one article has text, and a fenced answer of the model
\* with the given type
TicketFetches ==
    {f \in FetchOutcomes :
        f.ok /\ Len(f.arts) = 1 /\ f.arts[1].Subject = "Ayuda"
             /\ f.arts[1].Body = "impresora"}
TypedSources(tids) ==
    {ObjectSrc(f, tid, "diagnostico", JStr(<<"x">>)) :
        f \in {g \in Fences : g.fenced /\ Len(g.pre) = 5}, tid \in tids}
VisualNotCalled == CHOOSE x \in VisualOutcomes : x.kind = "no_url"
LoginOk == [kind |-> "ok", sid |-> "sidA"]

\* requests for incident tickets, each served to its delegated end, and the
\* pool's workers running their tasks in between
PoolNext ==
    \/ WebhookRequest("T1", "written", LoginOk, MaxPoolRuns)
    \/ \E fetch \in TicketFetches : FetchTicketText(fetch)
    \/ RagToolConfig("tool")
    \/ \E src \in TypedSources({JNum(INCIDENT)}) : Diagnose(src, VisualNotCalled)
    \/ ProcessIncident("metadata")
    \/ ExtractAndDelegate("entity")
    \/ MarkDelegated
    \/ TaskStartStep
    \/ \E i \in 1..Len(tasks), errlog \in {"report", "malformed_report"} :
          ProcessIncidentAsync(i, errlog, "ok")

\* requests whose payload may or may not name a ticket
WebhookNext ==
    \/ \E payload \in PayloadTickets, logw \in LogWrites,
          login \in {LoginOk, [kind |-> "http_error", sid |-> None]} :
          WebhookRequest(payload, logw, login, MaxRequests)
    \/ \E fetch \in TicketFetches \cup {[ok |-> FALSE, arts |-> <<>>]} :
          FetchTicketText(fetch)
    \/ RagToolConfig("tool")
    \/ \E src \in TypedSources({JNum(INCIDENT), JNum(14)}) :
          Diagnose(src, VisualNotCalled)
    \/ ProcessIncident("metadata")
    \/ ExtractAndDelegate("entity")
    \/ MarkDelegated
    \/ \E upd \in UpdateOutcomes : UpdateTicket(upd)
    \/ TaskStartStep
    \/ \E i \in 1..Len(tasks) : ProcessIncidentAsync(i, "report", "ok")

\* webhook requests handled one after the other by the shared service
Init == SessionIdle /\ SelectorIdle /\ DiagIdle /\ RunIdle /\ TaskIdle /\ ThreadIdle
Spec == Init /\ [][Next]_vars
SpecPool == Init /\ [][PoolNext]_vars
SpecWebhook == Init /\ [][WebhookNext]_vars

(* ====================================================================== *)
(*                     Properties of the session cache                    *)
(* ====================================================================== *)

\* the override values configured when call c was made
ConfiguredOverrides(c) == {e \in {c.env1, c.env2} : TruthyStr(e)}

\* C1: with no override configured, a call made while the cached entry is
\* younger than the TTL returns the cached value (the value the previous call
\* returned) without any authentication request; the first call made once the
\* entry's age has reached the TTL sends exactly one authentication request
\* and, when it succeeds, caches the new id with the time of the call.
C1_CachedWithinTtlOneReauthAfter ==
    (last_call.made /\ ConfiguredOverrides(last_call) = {}
        /\ TruthyStr(last_call.pre_id))
    => /\ (last_call.at - last_call.pre_ts < session_ttl)
            => /\ ~last_call.raised
               /\ last_call.value = last_call.pre_id
               /\ last_call.requests = 0
               /\ cached_session_id = last_call.pre_id
               /\ cached_session_ts = last_call.pre_ts
               /\ (prev_call.made /\ ~prev_call.raised
                      /\ prev_call.path # "override")
                     => last_call.value = prev_call.value
       /\ (last_call.at - last_call.pre_ts >= session_ttl)
            => /\ last_call.requests = 1
               /\ ~last_call.raised
                     => /\ last_call.value = last_call.login_sid
                        /\ cached_session_id = last_call.login_sid
                        /\ cached_session_ts = last_call.at

\* a cache hit followed, after expiry, by a successful re-authentication
C1_Witness ==
    /\ last_call.made /\ ConfiguredOverrides(last_call) = {}
    /\ TruthyStr(last_call.pre_id)
    /\ last_call.at - last_call.pre_ts >= session_ttl
    /\ last_call.requests = 1 /\ ~last_call.raised
    /\ prev_call.made /\ prev_call.path = "cache"

\* C2: whenever an override is configured, the call returns it verbatim,
\* sends no authentication request and leaves the cached id and timestamp as
\* they were, whatever the TTL and the cache state.
C2_OverrideBypassesCacheAndBackend ==
    (last_call.made /\ ConfiguredOverrides(last_call) # {})
    => /\ ~last_call.raised
       /\ last_call.value \in ConfiguredOverrides(last_call)
       /\ last_call.requests = 0
       /\ cached_session_id = last_call.pre_id
       /\ cached_session_ts = last_call.pre_ts

\* an override served while the cache holds an expired entry
C2_Witness ==
    /\ last_call.made /\ ConfiguredOverrides(last_call) # {}
    /\ ~TruthyStr(last_call.env1)
    /\ TruthyStr(last_call.pre_id)
    /\ last_call.at - last_call.pre_ts >= session_ttl
    /\ last_call.value = last_call.env2

\* the call had to authenticate and the authentication failed
LoginFailed(c) ==
    /\ c.made /\ c.path = "login"
    /\ ~c.creds \/ c.outcome \in {"transport_error", "http_error", "bad_json",
                                  "no_session_id"}

\* C3: when authentication fails the call raises and the cached id and
\* timestamp are what they were before the call.
C3_FailedLoginLeavesCache ==
    LoginFailed(last_call)
    => /\ last_call.raised
       /\ cached_session_id = last_call.pre_id
       /\ cached_session_ts = last_call.pre_ts

\* a failed re-authentication over a stale entry
C3_Witness ==
    /\ LoginFailed(last_call)
    /\ TruthyStr(last_call.pre_id)
    /\ last_call.outcome = "no_session_id"
    /\ cached_session_id = last_call.pre_id

(* ====================================================================== *)
(*                   Properties of the article selector                   *)
(* ====================================================================== *)

\* The classification of spec section 4.2: a message is an automatic
\* notification when the system sent it or its body is the boilerplate one.
IsAutomatic(a) == a.SenderType = "system" \/ a.Body = "registrada"
NonAutoCustomer(a) == a.SenderType = "customer" /\ ~IsAutomatic(a)

HasNonAutoCustomer(arts) == \E i \in 1..Len(arts) : NonAutoCustomer(arts[i])
HasNonAuto(arts) == \E i \in 1..Len(arts) : ~IsAutomatic(arts[i])

\* the order of the messages: by CreateTime, by ArticleID when it is absent
OrderKey(a) == IF a.CreateTime # 0 THEN a.CreateTime ELSE a.ArticleID

\* a is placed before b: smaller key, or equal keys and earlier in the list
Before(arts, i, j) ==
    \/ OrderKey(arts[i]) < OrderKey(arts[j])
    \/ OrderKey(arts[i]) = OrderKey(arts[j]) /\ i < j

\* the position in the list of the first message in sorted order
EarliestIndex(arts) ==
    CHOOSE i \in 1..Len(arts) : \A j \in 1..Len(arts) : j # i => Before(arts, i, j)

\* the position of the last message in sorted order that satisfies P
MostRecentIndex(arts, P(_)) ==
    CHOOSE i \in 1..Len(arts) :
        /\ P(arts[i])
        /\ \A j \in 1..Len(arts) : (j # i /\ P(arts[j])) => Before(arts, j, i)

\* the position of the first message in sorted order that satisfies P
EarliestIndexWhere(arts, P(_)) ==
    CHOOSE i \in 1..Len(arts) :
        /\ P(arts[i])
        /\ \A j \in 1..Len(arts) : (j # i /\ P(arts[j])) => Before(arts, i, j)

NotAutomatic(a) == ~IsAutomatic(a)

TextOf(a) == [none |-> FALSE,
              text |-> <<"Subject: ", a.Subject, "\n---\nBody:\n", a.Body>>]

\* returning message a: its text, or none when it has neither subject nor body
Returned(a) == IF a.Subject = "" /\ a.Body = "" THEN NoText ELSE TextOf(a)

\* what is returned for the first message in sorted order
EarliestText(arts) == Returned(arts[EarliestIndex(arts)])

ResponseText == ResponseOf(response_src).text

\* the response is a JSON object inside a markdown fence, with a diagnostico
\* string that is not empty
FencedObjectWithDiagnostico ==
    /\ response_src.kind = "object"
    /\ response_src.fence.fenced
    /\ response_src.key = "diagnostico"
    /\ response_src.diag.t = "str" /\ response_src.diag.s # <<>>

\* C7: for every JSON object wrapped in a markdown fence, diagnose_ticket
\* returns the object's type_id and diagnostico unchanged.
C7_FencedJsonReturnedUnchanged ==
    (diag_pc = "done" /\ FencedObjectWithDiagnostico)
    => /\ diag_result.tag = "dict"
       /\ diag_result.type_id = response_src.type_id
       /\ diag_result.diagnostico = response_src.diag

\* the response is free text or a JSON text cut short: not parseable as JSON
NotJson == response_src.kind \in {"raw", "broken"}

\* the request has been through the write step with this body and type
WroteOnce(body, tid) ==
    /\ Len(update_calls) = 1
    /\ update_calls[1].body = <<"[Procesado por: mod_agentes]\n\n">> \o body
    /\ update_calls[1].type_id = tid

\* C8 as stated: every non-empty response that is not parseable as JSON
\* yields type_id None and the trimmed raw text as diagnosis, and the run
\* continues with that text to the write step.
C8_RawTextBecomesDiagnosis ==
    (model_calls = 1 /\ NotJson /\ ResponseText # <<>>)
    => /\ diag_result.tag = "dict"
       /\ diag_result.type_id = JNone
       /\ diag_result.diagnostico = JStr(Strip(ResponseText, WS))
       /\ pc \in {"incident", "update", "done"}
       /\ diagnosis_body = JStr(Strip(ResponseText, WS))
       /\ type_id_from_ia = JNone
       /\ submitted = <<>>
       /\ pc = "done" => WroteOnce(Strip(ResponseText, WS), JNone)

\* C8 as amended: every response that is not parseable as JSON and is not
\* blank (not empty once trimmed) yields type_id None and the trimmed raw text
\* as diagnosis, and the run continues with that text to the write step.
C8_NonBlankRawTextBecomesDiagnosis ==
    (model_calls = 1 /\ NotJson /\ Strip(ResponseText, WS) # <<>>)
    => /\ diag_result.tag = "dict"
       /\ diag_result.type_id = JNone
       /\ diag_result.diagnostico = JStr(Strip(ResponseText, WS))
       /\ pc \in {"incident", "update", "done"}
       /\ diagnosis_body = JStr(Strip(ResponseText, WS))
       /\ type_id_from_ia = JNone
       /\ submitted = <<>>
       /\ pc = "done" => WroteOnce(Strip(ResponseText, WS), JNone)

\* free text with blanks around it has been written, trimmed, to the ticket
C8_Witness ==
    /\ model_calls = 1 /\ response_src.kind = "raw"
    /\ Strip(ResponseText, WS) # <<>>
    /\ Strip(ResponseText, WS) # ResponseText
    /\ pc = "done" /\ run_result.status = "ok"
    /\ WroteOnce(Strip(ResponseText, WS), JNone)

\* the model gave no response at all
SrcNoResponse ==
    response_src.kind = "none" \/ (response_src.kind = "raw" /\ response_src.raw = <<>>)

\* the response is a JSON object with no diagnostico/diagnosis text in it
SrcNoField == response_src.kind = "object" /\ ~Truthy(response_src.diag)

\* the diagnosis text is there but blank: a blank diagnostico in the JSON
\* object, or a blank free-text response
SrcBlankText ==
    \/ /\ response_src.kind = "object" /\ response_src.diag.t = "str"
       /\ response_src.diag.s # <<>> /\ Strip(response_src.diag.s, WS) = <<>>
    \/ /\ response_src.kind = "raw" /\ response_src.raw # <<>>
       /\ Strip(response_src.raw, WS) = <<>>

Contains(txt, tok) == \E i \in 1..Len(txt) : txt[i] = tok

C10_NoResponseGivesPlaceholderString ==
    (diag_pc = "done" /\ SrcNoResponse)
    => /\ diag_result.tag = "str"
       /\ Contains(diag_result.text, UNAVAILABLE)

\* the empty string has been answered with the placeholder
C10_Witness ==
    /\ diag_pc = "done"
    /\ response_src.kind = "raw" /\ response_src.raw = <<>>
    /\ diag_result.tag = "str"

(* ====================================================================== *)
(*             Properties of the orchestration run and its tasks          *)
(* ====================================================================== *)

\* C11: in every run the incident path delegates (type_id 10, metadata
\* fetched, background task submitted) the synchronous path makes no
\* update_ticket call and ends as delegated; no run both submits a background
\* task and performs its own synchronous ticket write.
C11_DelegatedRunMakesNoSyncWrite ==
    /\ submitted # <<>>
       => /\ Len(submitted) = 1
          /\ type_id_from_ia = JNum(INCIDENT)
          /\ metadata_calls = 1
          /\ update_calls = <<>>
          /\ pc \in {"mark", "done"}
          /\ pc = "done" => run_result = Ended("delegated", None)
    /\ run_result.status = "delegated" => (Len(submitted) = 1 /\ update_calls = <<>>)
    /\ ~(submitted # <<>> /\ update_calls # <<>>)

\* an incident has been delegated and its task is in the pool
C11_Witness ==
    /\ run_result = Ended("delegated", None)
    /\ Len(submitted) = 1
    /\ update_calls = <<>>
    /\ \E i \in 1..Len(tasks) : tasks[i].handed = submitted[1]

\* the one request the write step sends for the run's diagnosis and type
SyncUpdateCall ==
    [subject |-> "Automatic Diagnosis (AI)",
     body |-> <<"[Procesado por: mod_agentes]\n\n">> \o diagnosis_body.s,
     type_id |-> type_id_from_ia,
     session_id |-> session_id]

\* the same request with the diagnosis alone as its body
BareDiagnosisCall == [SyncUpdateCall EXCEPT !.body = diagnosis_body.s]

\* C12 as stated: every run of a non-incident ticket that reaches the write
\* step makes exactly one backend ticket-update call, never zero and never
\* two, carrying the diagnosis as the article body and the model's type_id as
\* the type classification.
C12_NonIncidentWritesDiagnosisOnce ==
    (type_id_from_ia # JNum(INCIDENT) /\ pc = "done" /\ run_result.status = "ok")
    => update_calls = <<BareDiagnosisCall>>

\* C12 as amended: every run of a non-incident ticket that reaches the write
\* step makes exactly one backend ticket-update call, never zero and never
\* two; its article body is the line "[Procesado por: mod_agentes]", a blank
\* line, and then the diagnosis, and its type classification is the model's
\* type_id.
C12_NonIncidentWritesExactlyOnce ==
    /\ [][(pc = "update" /\ pc' # "update" /\ type_id_from_ia # JNum(INCIDENT))
            => /\ update_calls = <<>>
               /\ update_calls' = <<SyncUpdateCall>>
               /\ pc' = "done"
               /\ type_id_from_ia' = type_id_from_ia
               /\ diagnosis_body' = diagnosis_body]_vars
    /\ [](type_id_from_ia # JNum(INCIDENT)
            => /\ Len(update_calls) <= 1
               /\ submitted = <<>>
               /\ (pc = "done" /\ run_result.status = "ok")
                    => update_calls = <<SyncUpdateCall>>)

\* a request classified 14 has written its diagnosis once and ended ok
C12_Witness ==
    /\ pc = "done" /\ run_result.status = "ok"
    /\ type_id_from_ia = JNum(14)
    /\ diag_result.tag = "dict"
    /\ update_calls = <<SyncUpdateCall>>

\* C13: every background incident task issues exactly one backend
\* ticket-update before it ends, whatever happened in it: the formatted report
\* when the log-correlation call succeeded, the fixed fallback body when the
\* call failed or anything raised; never zero updates and never two.
C13_TaskUpdatesExactlyOnce ==
    \A i \in 1..Len(tasks) :
        tasks[i].state = "ended"
        => /\ Len(tasks[i].updates) = 1
           /\ tasks[i].updates[1].body[1] \in {"report", "no_logs_found"}

\* the model's answer raises the alarm: is_security_alert true, or a
\* criticality_score of 9 or more
AlertRaised ==
    /\ response_src.kind = "object"
    /\ \/ response_src.extra = [key |-> "is_security_alert", val |-> JBool(TRUE)]
       \/ /\ response_src.extra.key = "criticality_score"
          /\ response_src.extra.val.n >= 9

\* the article the run wrote is the plain one: the identifier line and the
\* model's diagnostico under the ordinary subject
PlainBody(c) == c.body = <<"[Procesado por: mod_agentes]\n\n">> \o diag_result.diagnostico.s
PlainSubject(c) == c.subject = "Automatic Diagnosis (AI)"

\* C14: whenever the model's response has is_security_alert true or
\* criticality_score >= 9, the body written to the ticket has the emergency
\* banner put before the diagnosis and the article's subject carries the
\* critical-alert prefix; otherwise neither is added.
C14_AlertAddsBannerAndPrefix ==
    (model_calls = 1 /\ diag_result.tag = "dict" /\ update_calls # <<>>)
    => LET c == update_calls[1] IN
       IF AlertRaised THEN ~PlainBody(c) /\ ~PlainSubject(c)
       ELSE PlainBody(c) /\ PlainSubject(c)

\* C15: if session acquisition fails or no usable ticket text is selected,
\* the run ends as failed with the model client never invoked, no ticket
\* update made and no background task submitted in that run.
C15_EarlyFailureShortCircuits ==
    /\ run_result = Ended("error", "SessionError")
       => /\ pc = "done" /\ session_id = None
          /\ model_calls = 0 /\ visual_calls = 0 /\ metadata_calls = 0
          /\ extract_calls = 0 /\ update_calls = <<>> /\ submitted = <<>>
    /\ (pc \notin {"idle", "fetch"} /\ run_result # Ended("error", "SessionError")
        /\ (extracted.none \/ extracted.text = <<>>))
       => /\ pc = "done" /\ run_result = Ended("error", "ValueError")
          /\ model_calls = 0 /\ visual_calls = 0 /\ metadata_calls = 0
          /\ extract_calls = 0 /\ update_calls = <<>> /\ submitted = <<>>

\* a request whose ticket has a message with neither subject nor body failed
\* before the model was asked
C15_Witness ==
    /\ pc = "done" /\ run_result = Ended("error", "ValueError")
    /\ articles # <<>> /\ extracted.none
    /\ model_calls = 0 /\ update_calls = <<>>

\* the model asked for visual analysis in an answer diagnose_ticket parsed
VisualRequested ==
    /\ model_calls = 1
    /\ response_src.kind = "object"
    /\ response_src.extra = [key |-> "requires_visual", val |-> JBool(TRUE)]
    /\ diag_result.tag = "dict"
    /\ pc \in {"incident", "extract", "mark", "update", "done"}
    /\ run_result.status # "error"

\* C16: whenever the model's parsed response has requires_visual true, the run
\* calls the visual-analysis service, and when that call succeeds the diagnosis
\* text and type_id used from then on are the visual service's output.
C16_VisualRequestedCallsVisualService ==
    VisualRequested
    => /\ visual_calls = 1
       /\ visual_result.ok
            => /\ diagnosis_body = visual_result.diagnosis
               /\ Truthy(visual_result.type_id)
                    => type_id_from_ia = visual_result.type_id

\* the visual service was called and gave nothing back
VisualCallFailed == visual_calls = 1 /\ ~visual_result.ok

\* the article a run writes for the classic diagnosis and type
ClassicCall ==
    [subject |-> "Automatic Diagnosis (AI)",
     body |-> <<"[Procesado por: mod_agentes]\n\n">> \o diag_result.diagnostico.s,
     type_id |-> diag_result.type_id,
     session_id |-> session_id]

\* C17: a failure of the visual-analysis call (timeout, connection error,
\* non-2xx, status "error", unconfigured URL) never aborts the run: the run
\* goes on to incident routing and the write step with the classic diagnosis
\* text and the classic type_id unchanged.
C17_VisualFailureKeepsClassicDiagnosis ==
    VisualCallFailed
    => /\ pc \in {"incident", "extract", "mark", "update", "done"}
       /\ run_result.exc # "RequestException"
       /\ diagnosis_body = diag_result.diagnostico
       /\ type_id_from_ia = diag_result.type_id
       /\ submitted # <<>> => submitted[1].diagnostico_inicial = diag_result.diagnostico.s
       /\ (pc = "done" /\ submitted = <<>>) => update_calls = <<ClassicCall>>

\* after a failed visual call the classic diagnosis has been written
C17_Witness ==
    /\ VisualCallFailed
    /\ requires_visual
    /\ pc = "done" /\ run_result.status = "ok"
    /\ update_calls = <<ClassicCall>>

\* the incident path's metadata fetch has failed in this run
MetadataFetchFailed ==
    type_id_from_ia = JNum(INCIDENT) /\ metadata_calls = 1 /\ metadata = None

\* the model's client-extraction operation has failed in this run: it gave
\* back no client object
ClientExtractionFailed ==
    type_id_from_ia = JNum(INCIDENT) /\ extract_calls = 1 /\ client_info # "entity"

\* C18 as stated: for an incident ticket (type_id 10), if the metadata fetch
\* fails or the model's client-extraction operation fails, no background task
\* is submitted and the orchestrator performs its own synchronous ticket
\* write, as for a non-incident ticket.
C18_FailedIncidentPathWritesSynchronously ==
    (MetadataFetchFailed \/ ClientExtractionFailed)
    => /\ submitted = <<>>
       /\ tasks = <<>>
       /\ run_result.status # "delegated"
       /\ pc = "done" => update_calls = <<SyncUpdateCall>>

\* C19: if the synchronous backend ticket update fails (transport error or
\* non-2xx response), the orchestration run ends as a failure raised to the
\* caller and never returns an ok outcome, and update_ticket has sent a
\* single request, with no retry.
C19_FailedUpdateFailsRunWithoutRetry ==
    update_resp = "error"
    => /\ pc = "done"
       /\ run_result = Ended("error", "RuntimeError")
       /\ update_calls = <<SyncUpdateCall>>

\* a run whose one ticket update failed
C19_Witness ==
    /\ update_resp = "error"
    /\ pc = "done"
    /\ Len(update_calls) = 1
    /\ run_result.status = "error"

\* no thread is inside get_or_create_session_id
Quiescent == \A t \in Threads : threads[t].pc \in {"idle", "done"}

\* the cached id and timestamp were stored by the call whose login got the id
CachePairFromOneLogin ==
    (Quiescent /\ cached_session_id # None)
    => cached_session_ts = OriginOf(cached_session_id)

\* every id a call has served from the cache was within the TTL of the
\* start of the authentication that produced it
ServedWithinTtl ==
    \A t \in Threads :
        (threads[t].pc = "done" /\ threads[t].path = "cache")
        => threads[t].now - OriginOf(threads[t].value) < session_ttl

\* C20 as stated: under every interleaving of concurrent
\* get_or_create_session_id calls on the shared service instance, the cached
\* session id and its timestamp come from one and the same successful
\* authentication (no torn pair), and a cached id is never served as valid
\* for longer than the TTL measured from the start of the authentication
\* that produced it.
C20_CachePairNeverTorn == CachePairFromOneLogin /\ ServedWithinTtl

\* C21 as stated: once an incident record has been submitted to the worker
\* pool, the request thread never mutates it again: under every interleaving
\* with the task, the object the task holds has exactly the fields and values
\* it had when it was handed over.
C21_SubmittedRecordNeverMutated ==
    \A i \in 1..Len(tasks) : tasks[i].data = tasks[i].handed

\* C25: for every ticket whose final type_id is not the incident type (10),
\* unknown/None included, the incident path fetches no ticket metadata, makes
\* no entity-extraction model call, creates no incident record and submits no
\* background task.
C25_NonIncidentSkipsIncidentPath ==
    (type_id_from_ia # JNum(INCIDENT)
     /\ pc \notin {"idle", "fetch", "rag", "diagnose", "route"})
    => /\ metadata_calls = 0 /\ metadata = None
       /\ extract_calls = 0 /\ client_info = None
       /\ submitted = <<>>
       /\ pc \in {"incident", "update", "done"}

\* a run whose diagnosis carried no type_id went through the incident path to
\* the write step
C25_Witness ==
    /\ type_id_from_ia = JNone
    /\ diag_result.tag = "dict"
    /\ pc = "update"
    /\ metadata_calls = 0
    /\ submitted = <<>>

\* the retrieval-tool handle was asked for and none was obtained
RagHandleMissing ==
    /\ ~extracted.none /\ extracted.text # <<>>
    /\ pc \notin {"idle", "fetch", "rag"}
    /\ tool_config = None

AllBlank(arts) ==
    \A i \in 1..Len(arts) : arts[i].Subject = "" /\ arts[i].Body = ""

PosIn(s, a) == CHOOSE k \in 1..Len(s) : s[k].ArticleID = a.ArticleID

\* C28 as stated: the selector orders messages ascending by the composite
\* key (created_at, id): among messages with equal created_at the one with
\* the lower id comes first regardless of input order, and messages whose
\* created_at is absent or zero are ordered by id alone.
C28_OrderedByCreateTimeThenId ==
    sel_pc = "done"
    => LET s == SortedArticles(articles) IN
       \A i, j \in 1..Len(s) :
          i < j => /\ (s[i].CreateTime # 0 /\ s[j].CreateTime # 0)
                        => s[i].CreateTime <= s[j].CreateTime
                   /\ s[i].CreateTime = s[j].CreateTime
                        => s[i].ArticleID < s[j].ArticleID

\* C28 as amended: the selector orders messages ascending by a single key,
\* created_at, or id when created_at is absent or zero; among messages with
\* equal keys the one that comes first in the input comes first (the id does
\* not break the tie).
C28_OrderedBySingleKeyStable ==
    sel_pc = "done"
    => LET s == SortedArticles(articles) IN
       /\ Len(s) = Len(articles)
       /\ \A i \in 1..Len(articles) : \E k \in 1..Len(s) : s[k] = articles[i]
       /\ \A i, j \in 1..Len(articles) :
             (i # j /\ Before(articles, i, j))
             => PosIn(s, articles[i]) < PosIn(s, articles[j])
       /\ articles # <<>> => extracted = Returned(s[1])

\* two messages with the same created_at: the one with the higher id came
\* first in the input, stays first, and is the one returned
C28_Witness ==
    /\ sel_pc = "done" /\ Len(articles) = 2
    /\ articles[1].CreateTime = 1 /\ articles[2].CreateTime = 1
    /\ articles[1].ArticleID > articles[2].ArticleID
    /\ SortedArticles(articles) = articles
    /\ articles[1].Body # articles[2].Body
    /\ extracted = TextOf(articles[1])

\* the response is a valid JSON object, fenced or not, whose diagnostico is a
\* string that is not empty
ObjectWithDiagnostico ==
    /\ response_src.kind = "object"
    /\ response_src.key = "diagnostico"
    /\ response_src.diag.t = "str" /\ response_src.diag.s # <<>>

\* C29 as stated: for every model response that is a valid JSON object
\* (fenced or not) with a non-empty diagnostico string d, diagnose_ticket
\* returns exactly d as the diagnosis: the clean-up removes the fence wrapper
\* only and alters no character inside the JSON values.
C29_DiagnosticoReturnedExactly ==
    (diag_pc = "done" /\ ObjectWithDiagnostico)
    => /\ diag_result.tag = "dict"
       /\ diag_result.diagnostico.s = response_src.diag.s

\* C22: at most 5 incident background tasks are executing at any moment,
\* across all the requests of the process; further submitted tasks wait in
\* the pool's queue, in the order they were submitted, until a worker is free.
C22_AtMostFiveTasksRunning ==
    /\ Cardinality(RunningTasks) <= 5
    /\ \A i, j \in 1..Len(tasks) :
          (i < j /\ tasks[i].state = "queued") => tasks[j].state = "queued"
    /\ QueuedTasks # {} => (Cardinality(RunningTasks) = 5 \/ ENABLED TaskStartStep)

\* five tasks are running and a sixth waits in the queue
C22_Witness ==
    /\ Cardinality(RunningTasks) = 5
    /\ QueuedTasks # {}
    /\ ~ENABLED TaskStartStep

\* C23: the incident path never blocks on the background task: once the task
\* is submitted the request thread can always take its next step to the
\* delegated outcome, whether the task is queued, running or ended, and
\* whether or not all 5 workers are busy.
C23_SubmitNeverBlocksRequest ==
    pc = "mark" => ENABLED MarkDelegated

\* a request has ended as delegated while its own task still waits in the
\* queue behind five running tasks
C23_Witness ==
    /\ pc = "done" /\ run_result = Ended("delegated", None)
    /\ tasks[Len(tasks)].handed = submitted[1]
    /\ tasks[Len(tasks)].state = "queued"
    /\ Cardinality(RunningTasks) = 5

\* C24 as stated: every incident task submitted to the pool is eventually
\* executed and ends after its ticket-update attempt; here, the part that a
\* task that has ended has made its ticket-update attempt.
C24_EndedTaskHasAttemptedUpdate ==
    \A i \in 1..Len(tasks) :
        tasks[i].state = "ended" => Len(tasks[i].updates) = 1

\* C30 as stated: a request whose own payload carries no TicketID gets a 400
\* response and causes no session request, no diagnosis and no ticket update
\* for any ticket, in particular not for a ticket named in an earlier request.
C30_RequestWithoutTicketIsRejected ==
    (runs > 0 /\ payload_ticket = None)
    => /\ ticket_id = None
       /\ pc = "done"
       /\ HttpStatus = 400
       /\ session_id = None
       /\ model_calls = 0
       /\ update_calls = <<>>
       /\ submitted = <<>>

====
